---- MODULE Spec2Model ----
(***************************************************************************)
(* Model of gitui's hook resolution / hook execution (git2-hooks           *)
(* hookspath.rs, asyncgit sync/hooks.rs) and of the commit details         *)
(* extraction (asyncgit sync/commit_details.rs).                           *)
(*                                                                         *)
(* Strings and paths are sequences of tokens.  A token is either the path  *)
(* separator "/", a quote "'", a line terminator character, or a name.     *)
(* Option<T> is a sequence of length 0 (None) or 1 (Some).                 *)
(***************************************************************************)
EXTENDS Integers, Sequences, FiniteSets, TLC

VARIABLES
    \* ---- environment of the hook operations
    platform,   \* "unix" | "windows": the cfg!(windows) build
    bare,       \* whether the repository is bare
    config,     \* Option<String>: repository config key core.hooksPath
    files,      \* file system: absolute file name -> "none" | "plain" | "exec"
    \* ---- one hook operation in progress
    pc,         \* position of the (synchronous) caller
    call,       \* inputs of the operation in progress
    hp,         \* Option<Result<HookPaths>> as returned by HookPaths::new
    isFound,    \* Option<bool>: what HookPaths::found answered
    spawns,     \* the processes spawned so far by this operation
    proc,       \* Option: how the hook process ended and what it did
    runRes,     \* Option<Result<git2_hooks::HookResult>> of run_hook
    result,     \* Option<Result<asyncgit HookResult>> returned to the caller
    msg,        \* the caller's message buffer (&mut String)
    msgFile,    \* Option<String>: contents of the temporary message file
    \* ---- CommitMessage
    mpc, s, cm, combined,
    \* ---- get_commit_details
    dpc, repoCommit, mailmap, details

envVars == <<platform, bare, config, files>>
opVars == <<pc, call, hp, isFound, spawns, proc, runRes, result, msg, msgFile>>
msgVars == <<mpc, s, cm, combined>>
detVars == <<dpc, repoCommit, mailmap, details>>
vars == <<envVars, opVars, msgVars, detVars>>

None == <<>>
Some(x) == <<x>>
IsSome(o) == Len(o) = 1
Unwrap(o) == o[1]

Last(q) == q[Len(q)]
Front(q) == SubSeq(q, 1, Len(q) - 1)

----------------------------------------------------------------------------
(* Bounds *)

\* at most this many files exist in the modelled part of the file system
MaxFiles == 2
\* longest commit message (in characters) fed to CommitMessage::from
MaxLen == 4
\* signature times range over 1..MaxTime
MaxTime == 2

----------------------------------------------------------------------------
(* Paths (std::path::PathBuf) *)

SEP == "/"

IsAbsolute(p) == p # <<>> /\ Head(p) = SEP

\* PathBuf::join / push: an absolute argument replaces the path, otherwise a
\* separator is added unless the path is empty or already ends in one
Join(a, b) ==
    IF IsAbsolute(b) THEN b
    ELSE IF a = <<>> \/ Last(a) = SEP THEN a \o b
    ELSE a \o <<SEP>> \o b

\* Path::components: repeated and trailing separators do not matter
Names(p) == SelectSeq(p, LAMBDA t : t # SEP)

\* str::trim_end_matches('/')
RECURSIVE TrimEndSlashes(_)
TrimEndSlashes(p) ==
    IF p # <<>> /\ Last(p) = SEP THEN TrimEndSlashes(Front(p)) ELSE p

\* what libgit2 reports: directories with a trailing separator
WorkTree == <<SEP, "repo", SEP>>
GitDirOf(isBare) ==
    IF isBare THEN <<SEP, "bare.git", SEP>> ELSE <<SEP, "repo", SEP, ".git", SEP>>
HomeDir == <<SEP, "home">>
\* the current directory of the calling process, against which the
\* operating system resolves a relative path
ProcCwd == HomeDir

DEFAULT_HOOKS_PATH == <<"hooks">>
ENOEXEC == 8

HOOK_PRE_COMMIT == <<"pre-commit">>
HOOK_POST_COMMIT == <<"post-commit">>
HOOK_COMMIT_MSG == <<"commit-msg">>
HOOK_PREPARE_COMMIT_MSG == <<"prepare-commit-msg">>
HookNames ==
    {HOOK_PRE_COMMIT, HOOK_POST_COMMIT, HOOK_COMMIT_MSG, HOOK_PREPARE_COMMIT_MSG}

\* the absolute file name a path denotes for the operating system
FileOf(p) == IF IsAbsolute(p) THEN Names(p) ELSE Names(Join(ProcCwd, p))

----------------------------------------------------------------------------
(* shellexpand::full *)

\* the variables of the process environment
EnvLookup(t) == IF t = "$HOME" THEN Some(HomeDir) ELSE None
IsVar(t) == t \in {"$HOME", "$UNSET"}

\* a leading "~" is the home directory, "$VAR" is the variable's value; an
\* unset variable is a LookupError
RECURSIVE ExpandVars(_)
ExpandVars(p) ==
    IF p = <<>> THEN Some(<<>>)
    ELSE LET rest == ExpandVars(Tail(p)) IN
         IF ~IsSome(rest) THEN None
         ELSE IF IsVar(Head(p))
              THEN IF IsSome(EnvLookup(Head(p)))
                   THEN Some(Unwrap(EnvLookup(Head(p))) \o Unwrap(rest))
                   ELSE None
              ELSE Some(<<Head(p)>> \o Unwrap(rest))

ShellExpandFull(p) ==
    IF p # <<>> /\ Head(p) = "~" /\ (Len(p) = 1 \/ p[2] = SEP)
    THEN LET rest == ExpandVars(Tail(p)) IN
         IF IsSome(rest) THEN Some(HomeDir \o Unwrap(rest)) ELSE None
    ELSE ExpandVars(p)

----------------------------------------------------------------------------
(* The file system and the repository (git2::Repository) *)

\* directories holding hooks: the default one, two alternate search
\* directories under the git directory, and one outside the repository
HookDirs(isBare) ==
    { Names(GitDirOf(isBare)) \o DEFAULT_HOOKS_PATH,
      Names(GitDirOf(isBare)) \o <<"alt1">>,
      Names(GitDirOf(isBare)) \o <<"alt2">>,
      Names(HomeDir) \o <<"my_hooks">> }

\* Path::exists
Exists(p) == FileOf(p) \in DOMAIN files /\ files[FileOf(p)] # "none"

\* Repository::path / Repository::workdir
RepoPath(repo) == repo.path
RepoWorkdir(repo) == repo.workdir

\* the values core.hooksPath takes
ConfigValues ==
    { <<"~", SEP, "my_hooks">>,      \* expanded by the shell syntax
      <<"my_hooks">>,                \* relative
      <<"$UNSET", SEP, "my_hooks">>  \* names a variable that is not set
    }

\* the other_paths arguments: sub paths of the git directory
OtherPathsValues ==
    { None,
      Some(<<<<"alt1", SEP, SEP>>, <<"alt2">>>>),
      Some(<<<<"alt2">>, <<"alt1">>>>) }

----------------------------------------------------------------------------
(* HookPaths (git2-hooks/src/hookspath.rs) *)

Ok(v) == [ok |-> TRUE, v |-> v, err |-> "-"]
Err(e) == [ok |-> FALSE, v |-> "-", err |-> e]

\* HookPaths::config_hook_path: repo.config()?.get_string(..).ok()
ConfigHookPath(repo) == config

\* the loop of find_hook over the search directories
RECURSIVE FindHookIn(_, _, _)
FindHookIn(repo, paths, hook) ==
    IF paths = <<>>
    THEN Join(Join(RepoPath(repo), DEFAULT_HOOKS_PATH), hook)
    ELSE LET p == Join(Join(RepoPath(repo), Head(paths)), hook) IN
         IF Exists(p) THEN p ELSE FindHookIn(repo, Tail(paths), hook)

\* mutant: the other_paths are searched before the default directory
SearchPathsOthersFirst(other_paths) ==
    (IF IsSome(other_paths)
     THEN [i \in 1..Len(Unwrap(other_paths)) |-> TrimEndSlashes(Unwrap(other_paths)[i])]
     ELSE <<>>) \o <<DEFAULT_HOOKS_PATH>>

SearchPaths(other_paths) ==
    <<DEFAULT_HOOKS_PATH>> \o
    (IF IsSome(other_paths)
     THEN [i \in 1..Len(Unwrap(other_paths)) |-> TrimEndSlashes(Unwrap(other_paths)[i])]
     ELSE <<>>)

FindHook(repo, other_paths, hook) ==
    FindHookIn(repo, SearchPaths(other_paths), hook)

\* mutant: the git directory is taken even when there is a work-tree
PwdGitDir(repo) == RepoPath(repo)

\* the working directory HookPaths::new chooses
Pwd(repo) ==
    IF IsSome(RepoWorkdir(repo)) THEN Unwrap(RepoWorkdir(repo)) ELSE RepoPath(repo)

\* mutant: a configured hook that is missing falls back to the search
HookPathsNewFallback(repo, other_paths, hook) ==
    LET pwd == Pwd(repo)
        git_dir == RepoPath(repo)
        config_path == ConfigHookPath(repo)
        expanded == IF IsSome(config_path)
                    THEN ShellExpandFull(Join(Unwrap(config_path), hook))
                    ELSE None
    IN IF IsSome(config_path) /\ ~IsSome(expanded) THEN Err("shellexpand")
       ELSE IF IsSome(config_path) /\ Exists(Unwrap(expanded))
       THEN Ok([git |-> git_dir, hook |-> Unwrap(expanded), pwd |-> pwd])
       ELSE Ok([git |-> git_dir, hook |-> FindHook(repo, other_paths, hook), pwd |-> pwd])

HookPathsNew(repo, other_paths, hook) ==
    LET pwd == Pwd(repo)
        git_dir == RepoPath(repo)
        config_path == ConfigHookPath(repo)
    IN IF IsSome(config_path)
       THEN LET expanded == ShellExpandFull(Join(Unwrap(config_path), hook)) IN
            IF IsSome(expanded)
            THEN Ok([git |-> git_dir, hook |-> Unwrap(expanded), pwd |-> pwd])
            ELSE Err("shellexpand")
       ELSE Ok([git |-> git_dir, hook |-> FindHook(repo, other_paths, hook), pwd |-> pwd])

\* is_executable: any execute bit on unix, always true on windows
IsExecutable(path) ==
    IF platform = "windows" THEN TRUE
    ELSE FileOf(path) \in DOMAIN files /\ files[FileOf(path)] = "exec"

\* mutant: found() without the existence test
FoundNoExistsCheck(h) == IsExecutable(h.hook)

\* mutant: found() without the test of the execute bit
FoundExistsOnly(h) == Exists(h.hook)

\* HookPaths::found
Found(h) == Exists(h.hook) /\ IsExecutable(h.hook)

----------------------------------------------------------------------------
(* HookPaths::run_hook *)

\* sh_path: "sh", or on windows the sh.exe bundled with git when it is there
ShPaths ==
    IF platform = "windows" THEN {<<"sh">>, <<"git", SEP, "usr", SEP, "bin", SEP, "sh.exe">>}
    ELSE {<<"sh">>}

\* sh_command: on windows the shell is started with -l
ShCommand(sh) ==
    [prog |-> sh, args |-> IF platform = "windows" THEN <<<<"-l">>>> ELSE <<>>]

\* hook.replace('\'', REPLACEMENT)
RECURSIVE EscapeQuotes(_)
EscapeQuotes(p) ==
    IF p = <<>> THEN <<>>
    ELSE (IF Head(p) = "'" THEN <<"'", "\\'", "'">> ELSE <<Head(p)>>)
         \o EscapeQuotes(Tail(p))

\* the command string handed to sh -c on windows
WindowsCommand(hook) == <<"'">> \o EscapeQuotes(hook) \o <<"'">> \o <<" \"$@\"">>

\* the working directory run_command gives every process
SpawnCwd(h) == h.pwd

\* the closure run_command: the arguments and the working directory
RunCommand(command, h, args) ==
    [prog |-> command.prog, args |-> command.args \o args, cwd |-> SpawnCwd(h)]

\* an entry of the log of spawns: the command and how the spawn went
Logged(c, outcome) ==
    [prog |-> c.prog, args |-> c.args, cwd |-> c.cwd, outcome |-> outcome]

DirectCommand(h) == [prog |-> h.hook, args |-> <<>>]
ShellRetryCommand(h, sh) ==
    [prog |-> ShCommand(sh).prog, args |-> ShCommand(sh).args \o <<h.hook>>]
WindowsShellCommand(h, sh) ==
    [prog |-> ShCommand(sh).prog,
     args |-> ShCommand(sh).args \o <<<<"-c">>, WindowsCommand(h.hook), h.hook>>]

\* mutant: every spawn error is retried in the shell
ShouldRetryAny(err) == TRUE

\* Err(err) if err.raw_os_error() == Some(ENOEXEC)
ShouldRetry(err) == err.raw = Some(ENOEXEC)

\* how a spawn can fail: io::Error with its raw_os_error
SpawnErrors ==
    {[spawned |-> FALSE, raw |-> r] : r \in {Some(ENOEXEC), Some(2), None}}
Spawned == [spawned |-> TRUE, raw |-> None]
SpawnOutcomes == {Spawned} \cup SpawnErrors

\* String::from_utf8_lossy: an invalid byte becomes U+FFFD
FromUtf8Lossy(bytes) ==
    [i \in 1..Len(bytes) |-> IF bytes[i] = "xFF" THEN "uFFFD" ELSE bytes[i]]

\* ExitStatus::code is None when a signal ended the process
StatusSuccess(status) == status = Some(0)

HookResultOk(hook) ==
    [kind |-> "Ok", hook |-> hook, code |-> None, stdout |-> <<>>, stderr |-> <<>>]
NoHookFound ==
    [kind |-> "NoHookFound", hook |-> <<>>, code |-> None, stdout |-> <<>>, stderr |-> <<>>]
RunNotSuccessful(code, stdout, stderr, hook) ==
    [kind |-> "RunNotSuccessful", hook |-> hook, code |-> code,
     stdout |-> stdout, stderr |-> stderr]

\* the result run_hook builds from the output of the process
RunHookOutput(output, hook) ==
    IF StatusSuccess(output.status)
    THEN HookResultOk(hook)
    ELSE RunNotSuccessful(output.status, FromUtf8Lossy(output.stdout),
                          FromUtf8Lossy(output.stderr), hook)

----------------------------------------------------------------------------
(* asyncgit/src/sync/hooks.rs *)

ResultOk == [kind |-> "Ok", text |-> <<>>]
ResultNotOk(text) == [kind |-> "NotOk", text |-> text]

\* mutant: format!("{stderr}{stdout}")
HookResultFromSwapped(v) ==
    IF v.kind \in {"Ok", "NoHookFound"} THEN ResultOk
    ELSE ResultNotOk(v.stderr \o v.stdout)

\* impl From<git2_hooks::HookResult> for HookResult
HookResultFrom(v) ==
    IF v.kind \in {"Ok", "NoHookFound"} THEN ResultOk
    ELSE ResultNotOk(v.stdout \o v.stderr)

\* hooks_commit_msg / hooks_prepare_commit_msg hand their own &mut String
\* on, so what the inner operation leaves in it is what the caller sees
\* mutant: the wrapper hands on a copy of the buffer
CallerMsgCopy(old, inner) == old

CallerMsg(old, inner) == inner

\* every wrapper passes None as other_paths
AsyncgitOtherPaths == None

----------------------------------------------------------------------------
(* The four hook operations of git2-hooks (resolve, run if found, exchange *)
(* the message through a temporary file)                                   *)

IsMsgOp(name) == name \in {HOOK_COMMIT_MSG, HOOK_PREPARE_COMMIT_MSG}

\* PrepareCommitMsgSource: "message" stands for the sources that pass no
\* commit reference (message, template, merge, squash), "commit" passes one
PrepareSources == {"message", "commit"}
SourcesOf(name) == IF name = HOOK_PREPARE_COMMIT_MSG THEN PrepareSources ELSE {"-"}

\* the temporary file the message is exchanged through
TempFile == <<"msgfile">>

HookArgs(name, source) ==
    IF name = HOOK_COMMIT_MSG THEN <<TempFile>>
    ELSE IF name = HOOK_PREPARE_COMMIT_MSG
         THEN <<TempFile, <<source>>>> \o (IF source = "commit" THEN <<<<"HEAD">>>> ELSE <<>>)
    ELSE <<>>

\* the message buffer after the hook process ended: the temporary file as
\* the hook left it
ReadBack(name, file, old) == IF IsMsgOp(name) THEN Unwrap(file) ELSE old

\* opening the repository from a directory inside it (repo(repo_path))
OpenDirs ==
    IF bare THEN {GitDirOf(TRUE)}
    ELSE {WorkTree, WorkTree \o <<"foo", SEP>>}

RepoOpen(from) ==
    [path |-> GitDirOf(bare), workdir |-> IF bare THEN None ELSE Some(WorkTree)]

MsgInputs == {<<"test">>}

\* what a hook process can do: its exit status, its output, the message file
ExitStatuses == {Some(0), Some(1), None}
StdoutValues == {<<>>, <<"rejected", "xFF", "\n">>}
StderrValues == {<<>>, <<"err">>}
Rewrites == {None, Some(<<"msg", "\n">>)}

----------------------------------------------------------------------------
(* CommitMessage (asyncgit/src/sync/commit_details.rs) *)

LF == "\n"
CR == "\r"
Chars == {"a", "b", LF, CR}

\* the position of the first LF of a string, 0 when it has none
FirstLF(str) ==
    IF \E i \in 1..Len(str) : str[i] = LF
    THEN CHOOSE i \in 1..Len(str) : str[i] = LF /\ \A j \in 1..(i - 1) : str[j] # LF
    ELSE 0

\* str::split_inclusive('\n'): the pieces keep their terminator
RECURSIVE SplitInclusive(_)
SplitInclusive(str) ==
    IF str = <<>> THEN <<>>
    ELSE IF FirstLF(str) = 0 THEN <<str>>
    ELSE <<SubSeq(str, 1, FirstLF(str))>>
         \o SplitInclusive(SubSeq(str, FirstLF(str) + 1, Len(str)))

\* what str::lines does to a piece: strip the LF, and then a CR before it
StripLineEnding(line) ==
    IF line # <<>> /\ Last(line) = LF
    THEN LET l == Front(line) IN
         IF l # <<>> /\ Last(l) = CR THEN Front(l) ELSE l
    ELSE line

\* str::lines
Lines(str) ==
    LET pieces == SplitInclusive(str) IN
    [i \in 1..Len(pieces) |-> StripLineEnding(pieces[i])]

\* [String]::join("\n")
RECURSIVE JoinLines(_)
JoinLines(ls) ==
    IF ls = <<>> THEN <<>>
    ELSE IF Len(ls) = 1 THEN ls[1]
    ELSE ls[1] \o <<LF>> \o JoinLines(Tail(ls))

\* mutant: a body that joins to the empty string is dropped
CommitMessageFromEmptyBodyNone(str) ==
    LET lines == Lines(str)
        body == IF lines = <<>> THEN <<>> ELSE Tail(lines)
    IN [subject |-> IF lines = <<>> THEN <<>> ELSE Head(lines),
        body |-> IF JoinLines(body) = <<>> THEN None ELSE Some(JoinLines(body))]

\* CommitMessage::from
CommitMessageFrom(str) ==
    LET lines == Lines(str)
        body == IF lines = <<>> THEN <<>> ELSE Tail(lines)
    IN [subject |-> IF lines = <<>> THEN <<>> ELSE Head(lines),
        body |-> IF body = <<>> THEN None ELSE Some(JoinLines(body))]

\* mutant: format!("{}{body}", self.subject)
CombineNoSeparator(m) ==
    IF IsSome(m.body) THEN m.subject \o Unwrap(m.body) ELSE m.subject

\* CommitMessage::combine
Combine(m) ==
    IF IsSome(m.body) THEN m.subject \o <<LF>> \o Unwrap(m.body) ELSE m.subject

----------------------------------------------------------------------------
(* CommitSignature and get_commit_details *)

\* git2::Signature: name and email are bytes that may not be UTF-8, the
\* time has seconds and a zone offset
RawNames ==
    { [bytes |-> "A", utf8 |-> TRUE], [bytes |-> "B", utf8 |-> TRUE],
      [bytes |-> "xFFa", utf8 |-> FALSE], [bytes |-> "xFFb", utf8 |-> FALSE] }
RawEmails == { [bytes |-> "a@x", utf8 |-> TRUE], [bytes |-> "b@x", utf8 |-> TRUE] }
Offsets == {0, 60}
Signatures ==
    [name : RawNames, email : RawEmails, seconds : 1..MaxTime, offset : Offsets]

\* Signature::name / Signature::email: None unless valid UTF-8
SigStr(raw) == IF raw.utf8 THEN Some(raw.bytes) ELSE None

\* Option::unwrap_or("")
UnwrapOrEmpty(o) == IF IsSome(o) THEN Unwrap(o) ELSE ""

\* CommitSignature::from
CommitSignatureFrom(sig) ==
    [name |-> UnwrapOrEmpty(SigStr(sig.name)),
     email |-> UnwrapOrEmpty(SigStr(sig.email)),
     time |-> sig.seconds]

\* the mailmaps: none, or one entry "A <a@x> B <b@x>"
Mailmaps == {"empty", "B-to-A"}

\* Commit::author_with_mailmap / committer_with_mailmap when they succeed
MailmapResolve(mm, sig) ==
    IF mm = "B-to-A" /\ sig.name.bytes = "B" /\ sig.email.bytes = "b@x"
    THEN [sig EXCEPT !.name = [bytes |-> "A", utf8 |-> TRUE],
                     !.email = [bytes |-> "a@x", utf8 |-> TRUE]]
    ELSE sig

\* get_author_of_commit: the unmapped author when the lookup fails
GetAuthorOfCommit(commit, mm) ==
    IF mm.authorFails THEN commit.author ELSE MailmapResolve(mm.map, commit.author)

\* get_committer_of_commit: the unmapped committer when the lookup fails
GetCommitterOfCommit(commit, mm) ==
    IF mm.committerFails THEN commit.committer
    ELSE MailmapResolve(mm.map, commit.committer)

\* mutant: the comparison leaves the time out
CommitterOfIgnoringTime(author, committer) ==
    IF author.name = committer.name /\ author.email = committer.email
    THEN None ELSE Some(committer)

\* if author == committer { None } else { Some(committer) }
CommitterOf(author, committer) == IF author = committer THEN None ELSE Some(committer)

\* get_commit_details, for a commit that was found
CommitDetailsOf(commit, mm) ==
    LET author == CommitSignatureFrom(GetAuthorOfCommit(commit, mm))
        committer == CommitSignatureFrom(GetCommitterOfCommit(commit, mm))
    IN [author |-> author,
        committer |-> CommitterOf(author, committer),
        message |-> Some(CommitMessageFrom(commit.message)),
        hash |-> commit.id]

GetCommitDetailsResult(found, mm) ==
    IF IsSome(found) THEN Ok(CommitDetailsOf(Unwrap(found), mm)) ELSE Err("find_commit")

----------------------------------------------------------------------------
(* State machine of the hook operations *)

FilesFor(isBare) == { d \o n : d \in HookDirs(isBare), n \in HookNames }
NumFiles == Cardinality({f \in DOMAIN files : files[f] # "none"})

NoCall == [name |-> <<>>, source |-> "-", from |-> <<>>, others |-> None,
           args |-> <<>>, m |-> <<>>, facade |-> FALSE]

OpIdle ==
    /\ pc = "idle" /\ call = NoCall /\ hp = None /\ isFound = None
    /\ spawns = <<>> /\ proc = None
    /\ runRes = None /\ result = None /\ msg = <<>> /\ msgFile = None
MsgOff == mpc = "off" /\ s = <<>> /\ cm = None /\ combined = None
DetOff ==
    /\ dpc = "off" /\ repoCommit = None /\ details = None
    /\ mailmap = [map |-> "empty", authorFails |-> FALSE, committerFails |-> FALSE]

Init ==
    /\ platform \in {"unix", "windows"}
    /\ bare \in BOOLEAN
    /\ config = None
    /\ files = [f \in FilesFor(bare) |-> "none"]
    /\ OpIdle /\ MsgOff /\ DetOff

\* create_hook_in_path: File::create, then chmod +x under cfg(unix)
CreateHookInPath(f) ==
    /\ pc = "idle" /\ files[f] = "none" /\ NumFiles < MaxFiles
    /\ files' = [files EXCEPT ![f] = IF platform = "unix" THEN "exec" ELSE "plain"]
    /\ UNCHANGED <<platform, bare, config, opVars, msgVars, detVars>>

\* a file that was created without the execute bit
CreatePlainFile(f) ==
    /\ pc = "idle" /\ files[f] = "none" /\ NumFiles < MaxFiles
    /\ files' = [files EXCEPT ![f] = "plain"]
    /\ UNCHANGED <<platform, bare, config, opVars, msgVars, detVars>>

\* config.set_str("core.hooksPath", v)
SetHooksPath(v) ==
    /\ pc = "idle" /\ config = None
    /\ config' = Some(v)
    /\ UNCHANGED <<platform, bare, files, opVars, msgVars, detVars>>

\* HookPaths::new called with a list of search directories, then found()
Resolve(name, others) ==
    /\ pc = "idle"
    /\ LET r == HookPathsNew(RepoOpen(GitDirOf(bare)), others, name) IN
       /\ hp' = Some(r)
       /\ isFound' = IF r.ok THEN Some(Found(r.v)) ELSE None
    /\ call' = [NoCall EXCEPT !.name = name, !.others = others]
    /\ pc' = "resolved"
    /\ UNCHANGED <<envVars, spawns, proc, runRes, result, msg, msgFile, msgVars, detVars>>

\* hooks_pre_commit, hooks_post_commit, hooks_commit_msg and
\* hooks_prepare_commit_msg of git2-hooks, called with a list of search
\* directories, up to the point where the hook is started
HookOp(name, source, others, from, m) ==
    /\ pc = "idle"
    /\ LET r == HookPathsNew(RepoOpen(from), others, name) IN
       /\ hp' = Some(r)
       /\ call' = [name |-> name, source |-> source, from |-> from,
                   others |-> others, args |-> HookArgs(name, source),
                   m |-> IF IsMsgOp(name) THEN m ELSE <<>>, facade |-> TRUE]
       /\ msg' = IF IsMsgOp(name) THEN m ELSE <<>>
       /\ isFound' = IF r.ok THEN Some(Found(r.v)) ELSE None
       /\ IF ~r.ok
          THEN /\ result' = Some(Err(r.err)) /\ pc' = "done" /\ msgFile' = None
          ELSE IF ~Found(r.v)
          THEN /\ result' = Some(Ok(HookResultFrom(NoHookFound)))
               /\ pc' = "done" /\ msgFile' = None
          ELSE /\ result' = None /\ pc' = "run"
               /\ msgFile' = IF IsMsgOp(name) THEN Some(m) ELSE None
    /\ UNCHANGED <<envVars, spawns, proc, runRes, msgVars, detVars>>

\* the four operations as asyncgit calls them: without search directories
Call(name, source, from, m) == HookOp(name, source, AsyncgitOtherPaths, from, m)

\* a spawn failed and run_hook returns the error, which the operation
\* hands on to its caller
SpawnFailed(err) ==
    /\ runRes' = Some(Err(err))
    /\ result' = Some(Err("io"))
    /\ msgFile' = None
    /\ pc' = "done"
    /\ UNCHANGED <<proc, msg>>

\* run_hook without cfg!(windows): execute the hook directly
SpawnDirect(outcome) ==
    /\ pc = "run" /\ platform # "windows"
    /\ spawns' = Append(spawns,
            Logged(RunCommand(DirectCommand(Unwrap(hp).v), Unwrap(hp).v, call.args), outcome))
    /\ IF outcome.spawned
       THEN pc' = "running" /\ UNCHANGED <<proc, runRes, result, msg, msgFile>>
       ELSE IF ShouldRetry(outcome)
       THEN pc' = "retry" /\ UNCHANGED <<proc, runRes, result, msg, msgFile>>
       ELSE SpawnFailed(outcome)
    /\ UNCHANGED <<envVars, call, hp, isFound, msgVars, detVars>>

\* run_hook: execute the hook in the shell (always on windows, after
\* ENOEXEC elsewhere)
SpawnShell(sh, outcome) ==
    /\ \/ pc = "run" /\ platform = "windows"
       \/ pc = "retry"
    /\ spawns' = Append(spawns,
            Logged(RunCommand(IF platform = "windows"
                              THEN WindowsShellCommand(Unwrap(hp).v, sh)
                              ELSE ShellRetryCommand(Unwrap(hp).v, sh),
                              Unwrap(hp).v, call.args), outcome))
    /\ IF outcome.spawned
       THEN pc' = "running" /\ UNCHANGED <<proc, runRes, result, msg, msgFile>>
       ELSE SpawnFailed(outcome)
    /\ UNCHANGED <<envVars, call, hp, isFound, msgVars, detVars>>

\* the hook process runs and ends (Command::output returns); run_hook
\* builds its result, the message is read back from the file as the hook
\* left it, and the result is converted for the caller
HookExits(status, out, err, rewrite) ==
    /\ pc = "running"
    /\ IsSome(rewrite) => IsSome(msgFile)
    /\ LET left == IF IsSome(msgFile) /\ IsSome(rewrite) THEN rewrite ELSE msgFile
           output == [status |-> status, stdout |-> out, stderr |-> err]
           r == RunHookOutput(output, Unwrap(hp).v.hook)
       IN /\ proc' = Some([output |-> output, rewrite |-> rewrite])
          /\ runRes' = Some(Ok(r))
          /\ msg' = CallerMsg(msg, ReadBack(call.name, left, msg))
          /\ msgFile' = None
          /\ result' = Some(Ok(HookResultFrom(r)))
    /\ pc' = "done"
    /\ UNCHANGED <<envVars, call, hp, isFound, spawns, msgVars, detVars>>

\* the caller goes on to its next operation
Reset ==
    /\ pc \in {"done", "resolved"}
    /\ pc' = "idle" /\ call' = NoCall /\ hp' = None /\ isFound' = None
    /\ spawns' = <<>> /\ proc' = None
    /\ runRes' = None /\ result' = None /\ msg' = <<>> /\ msgFile' = None
    /\ UNCHANGED <<envVars, msgVars, detVars>>

\* the directories the operations of asyncgit can consult
FacadeFiles ==
    { f \in FilesFor(bare) :
        \E n \in HookNames :
            f \in { Names(GitDirOf(bare)) \o DEFAULT_HOOKS_PATH \o n,
                    Names(HomeDir) \o <<"my_hooks">> \o n } }

Next ==
    \/ \E f \in FacadeFiles : CreateHookInPath(f)
    \/ \E f \in FacadeFiles : CreatePlainFile(f)
    \/ \E v \in ConfigValues : SetHooksPath(v)
    \/ \E n \in HookNames, d \in OpenDirs, m \in MsgInputs :
          \E src \in SourcesOf(n) : Call(n, src, d, m)
    \/ \E o \in SpawnOutcomes : SpawnDirect(o)
    \/ \E sh \in ShPaths, o \in SpawnOutcomes : SpawnShell(sh, o)
    \/ \E st \in ExitStatuses, o \in StdoutValues, e \in StderrValues, w \in Rewrites :
          HookExits(st, o, e, w)
    \/ Reset

Spec == Init /\ [][Next]_vars

NextResolve ==
    \/ \E f \in FilesFor(bare) : CreateHookInPath(f)
    \/ \E f \in FilesFor(bare) : CreatePlainFile(f)
    \/ \E v \in ConfigValues : SetHooksPath(v)
    \/ \E n \in HookNames, o \in OtherPathsValues : Resolve(n, o)
    \/ Reset

SpecResolve == Init /\ [][NextResolve]_vars

\* the hooks the search is exercised with: one without and one with a
\* message file
SearchHooks == {HOOK_PRE_COMMIT, HOOK_COMMIT_MSG}

\* their files in the default hooks directory and in the search directories
SearchFiles ==
    { f \in FilesFor(bare) :
        \E n \in SearchHooks, d \in {DEFAULT_HOOKS_PATH, <<"alt1">>, <<"alt2">>} :
            f = Names(GitDirOf(bare)) \o d \o n }

\* the operations of git2-hooks with search directories, core.hooksPath
\* left unset
NextSearch ==
    \/ \E f \in SearchFiles : CreateHookInPath(f)
    \/ \E f \in SearchFiles : CreatePlainFile(f)
    \/ \E n \in SearchHooks, o \in OtherPathsValues, m \in MsgInputs :
          \E src \in SourcesOf(n) : HookOp(n, src, o, GitDirOf(bare), m)
    \/ \E o \in SpawnOutcomes : SpawnDirect(o)
    \/ \E sh \in ShPaths, o \in SpawnOutcomes : SpawnShell(sh, o)
    \/ \E st \in ExitStatuses, o \in StdoutValues, e \in StderrValues, w \in Rewrites :
          HookExits(st, o, e, w)
    \/ Reset

SpecSearch == Init /\ [][NextSearch]_vars

----------------------------------------------------------------------------
(* Properties of the hook resolution (SpecResolve) *)

\* equality of std::path::Path values: by components
PathEq(a, b) == IsAbsolute(a) = IsAbsolute(b) /\ Names(a) = Names(b)

\* the state of the file an absolute path names
FileState(p) == IF Names(p) \in DOMAIN files THEN files[Names(p)] ELSE "none"

DefaultHook(name) == GitDirOf(bare) \o DEFAULT_HOOKS_PATH \o <<SEP>> \o name

Candidates(name, others) ==
    <<DefaultHook(name)>> \o
    [i \in 1..Len(others) |-> GitDirOf(bare) \o others[i] \o <<SEP>> \o name]

\* C2: with core.hooksPath unset the resolved hook is the first existing
\* candidate among <gitDir>/hooks/<hook> and <gitDir>/<p>/<hook> for the
\* other_paths p in their order, and the placeholder <gitDir>/hooks/<hook>
\* when no candidate exists.
C2_FirstExistingCandidate ==
    (pc = "resolved" /\ config = None) =>
        LET c == Candidates(call.name,
                            IF IsSome(call.others) THEN Unwrap(call.others) ELSE <<>>)
            r == Unwrap(hp)
        IN /\ r.ok
           /\ \/ \E i \in 1..Len(c) :
                    /\ FileState(c[i]) # "none"
                    /\ \A j \in 1..(i - 1) : FileState(c[j]) = "none"
                    /\ PathEq(r.v.hook, c[i])
              \/ /\ \A i \in 1..Len(c) : FileState(c[i]) = "none"
                 /\ PathEq(r.v.hook, DefaultHook(call.name))

\* C2 witness: no hook in the default directory, one in each of the two
\* other_paths, and the one of the first entry is resolved
C2_Witness ==
    /\ pc = "resolved" /\ config = None
    /\ call.others = Some(<<<<"alt2">>, <<"alt1">>>>)
    /\ FileState(DefaultHook(call.name)) = "none"
    /\ FileState(GitDirOf(bare) \o <<"alt1", SEP>> \o call.name) # "none"
    /\ FileState(GitDirOf(bare) \o <<"alt2", SEP>> \o call.name) # "none"
    /\ PathEq(Unwrap(hp).v.hook, GitDirOf(bare) \o <<"alt2", SEP>> \o call.name)

----------------------------------------------------------------------------
(* Properties of the four hook operations (Spec) *)

\* the directory every hook has to run in
RepoRoot == IF bare THEN GitDirOf(TRUE) ELSE WorkTree

\* no file named like the hook in the default hooks directory nor in an
\* alternate search directory
NoHookFile(name) ==
    \A d \in {DEFAULT_HOOKS_PATH, <<"alt1">>, <<"alt2">>} :
        FileState(GitDirOf(bare) \o d \o <<SEP>> \o name) = "none"

\* C3: for each of the four hook operations, when core.hooksPath is unset
\* and no file with the hook's name exists in the default hooks directory
\* or in an alternate search directory, found() is false, the operation
\* returns Ok and no process is spawned.
C3_NoHookNoSpawn ==
    (call.facade /\ config = None /\ NoHookFile(call.name)) =>
        /\ pc = "done"
        /\ isFound = Some(FALSE)
        /\ result = Some(Ok(ResultOk))
        /\ spawns = <<>>

\* C3 witness: prepare-commit-msg was called in a repository without any
\* hook file and returned Ok without a spawn
C3_Witness ==
    /\ pc = "done" /\ call.facade /\ call.name = HOOK_PREPARE_COMMIT_MSG
    /\ config = None /\ NumFiles = 0
    /\ result = Some(Ok(ResultOk)) /\ spawns = <<>>

\* the text of the bytes a process wrote
Decoded(bytes) == [i \in 1..Len(bytes) |-> IF bytes[i] = "xFF" THEN "uFFFD" ELSE bytes[i]]

\* C4: for a hook that was run, the outcome is Ok if and only if the exit
\* status is exit code 0, whatever was written; for every other
\* termination the outcome is NotOk whose text is the captured stdout
\* followed by the captured stderr; the call itself does not fail.
C4_ResultFromExitStatus ==
    (pc = "done" /\ IsSome(proc)) =>
        LET o == Unwrap(proc).output IN
        /\ IsSome(runRes) /\ Unwrap(runRes).ok
        /\ IsSome(result) /\ Unwrap(result).ok
        /\ (Unwrap(result).v.kind = "Ok") <=> (o.status = Some(0))
        /\ (o.status # Some(0)) =>
              /\ Unwrap(result).v.kind = "NotOk"
              /\ Unwrap(result).v.text = Decoded(o.stdout \o o.stderr)

\* C4 witness: a hook killed by a signal that wrote to stdout and to stderr
C4_Witness ==
    /\ pc = "done" /\ IsSome(proc)
    /\ Unwrap(proc).output.status = None
    /\ Unwrap(proc).output.stdout # <<>> /\ Unwrap(proc).output.stderr # <<>>
    /\ Unwrap(result).v.kind = "NotOk"

\* C5: the working directory of every spawned hook process, the shell
\* fallback included, is HookPaths.pwd, and pwd is the work-tree root, or
\* the git directory of a bare repository, in every resolution branch and
\* whatever directory the repository was opened from.
C5_WorkingDirIsRepoRoot ==
    /\ (IsSome(hp) /\ Unwrap(hp).ok) => PathEq(Unwrap(hp).v.pwd, RepoRoot)
    /\ \A i \in 1..Len(spawns) :
          /\ spawns[i].cwd = Unwrap(hp).v.pwd
          /\ PathEq(spawns[i].cwd, RepoRoot)

\* C5 witness: opened from a subdirectory of the work-tree, the hook was
\* spawned directly and again through the shell
C5_Witness ==
    /\ ~bare /\ Len(spawns) = 2
    /\ call.from = WorkTree \o <<"foo", SEP>>
    /\ spawns[2].prog = <<"sh">>

\* C6: after the hook process of commit-msg or prepare-commit-msg exits,
\* with whatever status, the caller's message buffer holds the message
\* file as the hook left it: the rewritten text if the hook rewrote it, the
\* message that was passed in otherwise; a rejecting hook that rewrote the
\* file yields NotOk and the rewritten message.
C6_MessageReadBack ==
    (pc = "done" /\ IsSome(proc) /\ IsMsgOp(call.name)) =>
        LET w == Unwrap(proc).rewrite IN
        /\ msg = IF IsSome(w) THEN Unwrap(w) ELSE call.m
        /\ (IsSome(w) /\ Unwrap(proc).output.status # Some(0)) =>
              /\ Unwrap(result).ok /\ Unwrap(result).v.kind = "NotOk"
              /\ msg = Unwrap(w)

\* C6 witness: a commit-msg hook rewrote the message and exited with 1
C6_Witness ==
    /\ pc = "done" /\ IsSome(proc) /\ call.name = HOOK_COMMIT_MSG
    /\ Unwrap(proc).rewrite = Some(<<"msg", "\n">>)
    /\ Unwrap(proc).output.status = Some(1)
    /\ msg = <<"msg", "\n">> /\ msg # call.m
    /\ Unwrap(result).v.kind = "NotOk"

\* C10: without cfg!(windows) the hook file is first executed directly with
\* the args; the shell is spawned (hook path, then the same args, the same
\* working directory) if and only if the first spawn failed with ENOEXEC;
\* every other spawn failure, and a failure of the shell spawn, is returned
\* as an error; at most two spawns are attempted.
C10_RetryOnlyOnEnoexec ==
    (platform = "unix") =>
        /\ Len(spawns) <= 2
        /\ Len(spawns) >= 1 =>
              /\ spawns[1].prog = Unwrap(hp).v.hook
              /\ spawns[1].args = call.args
        /\ Len(spawns) = 2 =>
              /\ ~spawns[1].outcome.spawned /\ spawns[1].outcome.raw = Some(ENOEXEC)
              /\ spawns[2].prog = <<"sh">>
              /\ spawns[2].args = <<Unwrap(hp).v.hook>> \o call.args
              /\ spawns[2].cwd = spawns[1].cwd
        /\ (pc = "done" /\ Len(spawns) >= 1) =>
              /\ (spawns[1].outcome.raw = Some(ENOEXEC)) => Len(spawns) = 2
              /\ ~spawns[Len(spawns)].outcome.spawned =>
                    /\ ~Unwrap(runRes).ok /\ ~Unwrap(result).ok
                    /\ Unwrap(runRes).err = spawns[Len(spawns)].outcome

\* C10 witness: the direct spawn failed with ENOEXEC, the shell spawn
\* failed too, and the caller got the error after two spawns
C10_Witness ==
    /\ platform = "unix" /\ pc = "done" /\ Len(spawns) = 2
    /\ spawns[1].outcome.raw = Some(ENOEXEC)
    /\ ~spawns[2].outcome.spawned
    /\ ~Unwrap(result).ok

----------------------------------------------------------------------------
(* State machine of CommitMessage: a message is parsed, then combined *)

RECURSIVE StringsUpTo(_)
StringsUpTo(n) ==
    IF n = 0 THEN {<<>>}
    ELSE StringsUpTo(n - 1) \cup
         { Append(str, c) : str \in {x \in StringsUpTo(n - 1) : Len(x) = n - 1}, c \in Chars }

HooksOff ==
    /\ platform = "unix" /\ bare = FALSE /\ config = None
    /\ files = [f \in FilesFor(FALSE) |-> "none"]
    /\ OpIdle

InitMsg ==
    /\ s \in StringsUpTo(MaxLen)
    /\ mpc = "input" /\ cm = None /\ combined = None
    /\ HooksOff /\ DetOff

\* CommitMessage::from(s)
FromStr ==
    /\ mpc = "input"
    /\ cm' = Some(CommitMessageFrom(s))
    /\ mpc' = "parsed"
    /\ UNCHANGED <<s, combined, envVars, opVars, detVars>>

\* msg.combine()
CombineMsg ==
    /\ mpc = "parsed"
    /\ combined' = Some(Combine(Unwrap(cm)))
    /\ mpc' = "combined"
    /\ UNCHANGED <<s, cm, envVars, opVars, detVars>>

NextMsg == FromStr \/ CombineMsg

SpecMsg == InitMsg /\ [][NextMsg]_vars

----------------------------------------------------------------------------
(* Properties of CommitMessage (SpecMsg) *)

\* str::replace("\r\n", "\n")
RECURSIVE ReplaceCRLF(_)
ReplaceCRLF(str) ==
    IF str = <<>> THEN <<>>
    ELSE IF Len(str) >= 2 /\ str[1] = CR /\ str[2] = LF
    THEN <<LF>> \o ReplaceCRLF(SubSeq(str, 3, Len(str)))
    ELSE <<Head(str)>> \o ReplaceCRLF(Tail(str))

\* a string without its final LF, if it ends in one
WithoutFinalLF(str) == IF str # <<>> /\ Last(str) = LF THEN Front(str) ELSE str

\* C7 as stated: from(s).combine() is s with every CRLF replaced by LF.
C7_AsStated == (mpc = "combined") => Unwrap(combined) = ReplaceCRLF(s)

\* C7 amended: from(s).combine() is s with every CRLF replaced by LF and
\* without the terminator of its last line (one final LF, if s ends in a
\* line terminator).
C7_CombineAfterFrom ==
    (mpc = "combined") => Unwrap(combined) = WithoutFinalLF(ReplaceCRLF(s))

\* C7 witness: a message with a CRLF inside and a final LF was combined
C7_Witness ==
    /\ mpc = "combined" /\ s = <<"a", CR, LF, LF>>
    /\ Unwrap(combined) = <<"a", LF>>

\* C8: the subject is the first line of s (empty when s has no lines) and
\* holds no newline; the body is None exactly when no line follows the
\* first, and otherwise Some of the remaining lines joined with one LF each
\* (a CRLF terminator becomes LF; remaining lines that are all empty still
\* give Some).
C8_SubjectAndBody ==
    (mpc = "parsed") =>
        LET m == Unwrap(cm)
            i == FirstLF(s)
            first == IF i = 0 THEN s
                     ELSE IF i >= 2 /\ s[i - 1] = CR THEN SubSeq(s, 1, i - 2)
                     ELSE SubSeq(s, 1, i - 1)
            rest == IF i = 0 THEN <<>> ELSE SubSeq(s, i + 1, Len(s))
        IN /\ m.subject = first
           /\ \A k \in 1..Len(m.subject) : m.subject[k] # LF
           /\ (m.body = None) <=> (rest = <<>>)
           /\ (rest # <<>>) => m.body = Some(WithoutFinalLF(ReplaceCRLF(rest)))

\* C8 witness: the only remaining line is empty and the body is Some("")
C8_Witness ==
    /\ mpc = "parsed" /\ s = <<"a", LF, CR, LF>>
    /\ Unwrap(cm).subject = <<"a">>
    /\ Unwrap(cm).body = Some(<<>>)

----------------------------------------------------------------------------
(* State machine of get_commit_details *)

CommitMessages == {<<"a">>, <<"a", LF, "b", CR, LF>>}

InitDetails ==
    /\ repoCommit \in
          {None} \cup
          { Some([author |-> a, committer |-> c, message |-> m, id |-> "0123456789abcdef"]) :
              a \in Signatures, c \in Signatures, m \in CommitMessages }
    /\ mailmap \in [map : Mailmaps, authorFails : BOOLEAN, committerFails : BOOLEAN]
    /\ dpc = "start" /\ details = None
    /\ HooksOff /\ MsgOff

GetCommitDetails ==
    /\ dpc = "start"
    /\ details' = Some(GetCommitDetailsResult(repoCommit, mailmap))
    /\ dpc' = "done"
    /\ UNCHANGED <<repoCommit, mailmap, envVars, opVars, msgVars>>

NextDetails == GetCommitDetails

SpecDetails == InitDetails /\ [][NextDetails]_vars

----------------------------------------------------------------------------
(* Properties of get_commit_details (SpecDetails) *)

\* the text get_commit_details shows for a name or an email
Shown(raw) == IF raw.utf8 THEN raw.bytes ELSE ""

\* C9: committer is None if and only if the mailmap-resolved committer
\* signature equals the mailmap-resolved author signature in name, email
\* and time; if one of the three differs, committer is Some of the
\* committer signature.
C9_CommitterOnlyWhenDifferent ==
    (dpc = "done" /\ IsSome(repoCommit)) =>
        LET d == Unwrap(details)
            a == GetAuthorOfCommit(Unwrap(repoCommit), mailmap)
            c == GetCommitterOfCommit(Unwrap(repoCommit), mailmap)
            same == /\ Shown(a.name) = Shown(c.name)
                    /\ Shown(a.email) = Shown(c.email)
                    /\ a.seconds = c.seconds
        IN /\ d.ok
           /\ d.v.author = [name |-> Shown(a.name), email |-> Shown(a.email), time |-> a.seconds]
           /\ (d.v.committer = None) <=> same
           /\ ~same => d.v.committer =
                 Some([name |-> Shown(c.name), email |-> Shown(c.email), time |-> c.seconds])

\* C9 witness: author and committer differ in the time alone, and the
\* committer is reported
C9_Witness ==
    /\ dpc = "done" /\ IsSome(repoCommit)
    /\ Unwrap(repoCommit).author.name = Unwrap(repoCommit).committer.name
    /\ Unwrap(repoCommit).author.email = Unwrap(repoCommit).committer.email
    /\ Unwrap(repoCommit).author.seconds # Unwrap(repoCommit).committer.seconds
    /\ mailmap.map = "B-to-A"
    /\ IsSome(Unwrap(details).v.committer)

----------------------------------------------------------------------------
(* Properties of the search with a non-executable candidate (SpecSearch) *)

\* C11: with core.hooksPath unset, where a file lacks the execute bit
\* (unix), when the first existing candidate of the search is not
\* executable, that candidate is the resolved hook, found() is false, and
\* the operation returns Ok without starting any process, whatever the
\* later search directories hold.
C11_NonExecutableShadows ==
    (call.facade /\ config = None /\ platform = "unix") =>
        LET c == Candidates(call.name,
                            IF IsSome(call.others) THEN Unwrap(call.others) ELSE <<>>)
        IN \A i \in 1..Len(c) :
              (/\ FileState(c[i]) = "plain"
               /\ \A j \in 1..(i - 1) : FileState(c[j]) = "none")
              => /\ pc = "done"
                 /\ PathEq(Unwrap(hp).v.hook, c[i])
                 /\ isFound = Some(FALSE)
                 /\ spawns = <<>> /\ proc = None
                 /\ result = Some(Ok(ResultOk))

\* C11 witness: the default hooks directory holds a hook without the
\* execute bit, a later search directory an executable one of the same
\* name; the first is resolved and nothing is run
C11_Witness ==
    /\ call.facade /\ config = None /\ platform = "unix" /\ pc = "done"
    /\ call.others = Some(<<<<"alt2">>, <<"alt1">>>>)
    /\ FileState(DefaultHook(call.name)) = "plain"
    /\ FileState(GitDirOf(bare) \o <<"alt2", SEP>> \o call.name) = "exec"
    /\ PathEq(Unwrap(hp).v.hook, DefaultHook(call.name))
    /\ isFound = Some(FALSE)
    /\ spawns = <<>>

====
